---- MODULE Spec2Model ----
(***************************************************************************)
(* Model of scripts/run_qiwu_examples.py: the interactive launcher that    *)
(* resolves the qiwu-example executable, discovers the YAML configuration  *)
(* files under resources/exps, prompts for one and runs the executable on  *)
(* it.  The file system, the platform, the lines typed on standard input   *)
(* and the child's exit status are the environment.                        *)
(*                                                                         *)
(* A file name is a sequence of one-character strings, a path a sequence   *)
(* of names, so that sorting, globbing, stem, str() and int() are computed *)
(* character by character as pathlib and the builtins compute them.        *)
(***************************************************************************)
EXTENDS Integers, Sequences, FiniteSets, TLC

\* ------------------------------------------------------------ characters

Lowers == <<"a","b","c","d","e","f","g","h","i","j","k","l","m",
            "n","o","p","q","r","s","t","u","v","w","x","y","z">>

Uppers == <<"A","B","C","D","E","F","G","H","I","J","K","L","M",
            "N","O","P","Q","R","S","T","U","V","W","X","Y","Z">>

Digits == <<"0","1","2","3","4","5","6","7","8","9">>

IndexIn(seq, c) == IF \E i \in DOMAIN seq : seq[i] = c
                   THEN CHOOSE i \in DOMAIN seq : seq[i] = c
                   ELSE 0

\* ord(c) for the characters that occur in names and input lines.
Code(c) ==
    IF IndexIn(Lowers, c) > 0 THEN 96 + IndexIn(Lowers, c)
    ELSE IF IndexIn(Uppers, c) > 0 THEN 64 + IndexIn(Uppers, c)
    ELSE IF IndexIn(Digits, c) > 0 THEN 47 + IndexIn(Digits, c)
    ELSE CASE c = " "  -> 32
           [] c = "+"  -> 43
           [] c = "-"  -> 45
           [] c = "."  -> 46
           [] c = "/"  -> 47
           [] c = "\\" -> 92
           [] OTHER    -> 0

\* str.lower() on one character, and on a string.
LowerChar(c) == IF IndexIn(Uppers, c) > 0 THEN Lowers[IndexIn(Uppers, c)] ELSE c

Lower(s) == [i \in DOMAIN s |-> LowerChar(s[i])]

\* Comparison of two strings by code point, as Python's str.__lt__.
RECURSIVE StrLess(_, _)
StrLess(a, b) ==
    IF a = <<>> THEN b # <<>>
    ELSE IF b = <<>> THEN FALSE
    ELSE IF Code(Head(a)) # Code(Head(b)) THEN Code(Head(a)) < Code(Head(b))
    ELSE StrLess(Tail(a), Tail(b))

\* ------------------------------------------------------------ input lines

IsSpace(c) == c = " "

\* str.strip(): leading and trailing whitespace removed.
RECURSIVE LStrip(_)
LStrip(s) == IF s # <<>> /\ IsSpace(Head(s)) THEN LStrip(Tail(s)) ELSE s

RECURSIVE RStrip(_)
RStrip(s) == IF s # <<>> /\ IsSpace(s[Len(s)])
             THEN RStrip(SubSeq(s, 1, Len(s) - 1)) ELSE s

Strip(s) == RStrip(LStrip(s))

IsDigit(c) == IndexIn(Digits, c) > 0

RECURSIVE DigitsValue(_)
DigitsValue(s) == IF s = <<>> THEN 0
                  ELSE 10 * DigitsValue(SubSeq(s, 1, Len(s) - 1))
                       + (IndexIn(Digits, s[Len(s)]) - 1)

AllDigits(s) == s # <<>> /\ \A i \in DOMAIN s : IsDigit(s[i])

\* int(s) of an already stripped string: an optional sign and decimal
\* digits; anything else raises ValueError.
IntBody(s) == IF s # <<>> /\ Head(s) \in {"+", "-"} THEN Tail(s) ELSE s

RaisesValueError(s) == ~AllDigits(IntBody(s))

IntOf(s) == IF s # <<>> /\ Head(s) = "-" THEN 0 - DigitsValue(IntBody(s))
            ELSE DigitsValue(IntBody(s))

\* The lines the user may type (without the line terminator).
InputLines ==
    { <<"q">>, <<"Q">>, <<" ","q"," ">>, <<"q","q">>,
      <<"0">>, <<"-","1">>, <<"7">>,
      <<"1">>, <<"2">>, <<"3">>, <<"4">>, <<"5">>,
      <<" ","2"," ">>, <<"+","1">>,
      <<>>, <<"x">>, <<"2",".","0">> }

\* ------------------------------------------------------------ names

n_proj      == <<"p","r","o","j">>
n_scripts   == <<"s","c","r","i","p","t","s">>
n_build     == <<"b","u","i","l","d">>
n_bin       == <<"b","i","n">>
n_Release   == <<"R","e","l","e","a","s","e">>
n_RelWithDebInfo == <<"R","e","l","W","i","t","h","D","e","b","I","n","f","o">>
n_exe_win   == <<"q","i","w","u","-","e","x","a","m","p","l","e",".","e","x","e">>
n_exe       == <<"q","i","w","u","-","e","x","a","m","p","l","e">>
n_resources == <<"r","e","s","o","u","r","c","e","s">>
n_exps      == <<"e","x","p","s">>
n_sub       == <<"s","u","b">>
n_b_yaml    == <<"b",".","y","a","m","l">>
n_a_yml     == <<"a",".","y","m","l">>
n_c_txt     == <<"c",".","t","x","t">>
n_C_yaml    == <<"C",".","y","a","m","l">>
n_a_yaml    == <<"a",".","y","a","m","l">>
n_d_YML     == <<"d",".","Y","M","L">>

\* ------------------------------------------------------------ state

VARIABLES
    platform,         \* "posix" or "nt": the pathlib flavour of the interpreter
    exes,             \* file system: the executable paths that exist
    dirExists,        \* file system: resources/exps exists
    files,            \* file system: the paths of the files under resources/exps
    envSteps,         \* number of file-system changes made by other processes
    cwd,              \* the process's current working directory
    pc,               \* position of main()
    executable_path,  \* main's local, None before and when not found
    yaml_files,       \* get_yaml_configs's local: the paths the rglob calls yielded
    configs,          \* main's local: the list get_yaml_configs returned
    menu,             \* the numbered lines display_configs printed
    choice,           \* get_user_choice's local: the last line read, stripped
    selected_config,  \* main's local
    spawned,          \* the subprocess.run calls made: <<[argv, cwd]>>
    result,           \* what subprocess.run did: not found, or the exit status
    success,          \* run_experiment's return value
    out,              \* the messages printed on standard output so far
    exitCode,         \* the launcher's exit status once it has ended
    terminal,         \* the terminal state the run ended in, "" while running
    stages            \* the stages main has entered, in order

vars == <<platform, exes, dirExists, files, envSteps, cwd, pc, executable_path,
          yaml_files, configs, menu, choice, selected_config, spawned, result, success,
          out, exitCode, terminal, stages>>

fsVars == <<exes, dirExists, files, envSteps>>

progVars == <<cwd, pc, executable_path, yaml_files, configs, menu, choice, selected_config,
              spawned, result, success, out, exitCode, terminal, stages>>

\* ------------------------------------------------------------ paths

\* A path is the tuple of its parts, as pathlib's PurePath.parts: the anchor
\* first for an absolute path.
Sep == IF platform = "nt" THEN "\\" ELSE "/"

Anchor == <<Sep>>

\* str(path): the anchor, then the other parts joined by the separator.
RECURSIVE Join(_)
Join(parts) == IF parts = <<>> THEN <<>>
               ELSE IF Len(parts) = 1 THEN parts[1]
               ELSE parts[1] \o <<Sep>> \o Join(Tail(parts))

Str(path) == IF path # <<>> /\ path[1] = Anchor
             THEN Anchor \o Join(Tail(path))
             ELSE Join(path)

\* Path(__file__).parent.parent, __file__ being <root>/scripts/run_qiwu_examples.py
get_project_root == <<Anchor, n_proj>>

ScriptsDir == get_project_root \o <<n_scripts>>

ResourcesDir == get_project_root \o <<n_resources>>

yaml_dir == get_project_root \o <<n_resources, n_exps>>

None == <<>>

possible_paths ==
    << get_project_root \o <<n_build, n_bin, n_Release, n_exe_win>>,
       get_project_root \o <<n_build, n_bin, n_RelWithDebInfo, n_exe_win>>,
       get_project_root \o <<n_build, n_bin, n_exe>>,
       get_project_root \o <<n_build, n_exe>> >>

\* The for loop of get_executable_path from candidate i on.
RECURSIVE FirstExisting(_, _)
FirstExisting(i, existing) ==
    IF i > Len(possible_paths) THEN None
    ELSE IF possible_paths[i] \in existing THEN possible_paths[i]
    ELSE FirstExisting(i + 1, existing)

\* The candidates searched from the last to the first.
RECURSIVE LastExisting(_, _)
LastExisting(i, existing) ==
    IF i < 1 THEN None
    ELSE IF possible_paths[i] \in existing THEN possible_paths[i]
    ELSE LastExisting(i - 1, existing)

get_executable_path_reversed(existing) == LastExisting(Len(possible_paths), existing)

get_executable_path(existing) == FirstExisting(1, existing)

\* os.path.normcase per part: lower-cased on Windows, unchanged on POSIX.
NormCase(name) == IF platform = "nt" THEN Lower(name) ELSE name

\* PurePath.__lt__: the tuples of case-normalised parts compared as Python
\* compares tuples of strings.
RECURSIVE PartsLess(_, _)
PartsLess(a, b) ==
    IF a = <<>> THEN b # <<>>
    ELSE IF b = <<>> THEN FALSE
    ELSE IF NormCase(Head(a)) # NormCase(Head(b))
         THEN StrLess(NormCase(Head(a)), NormCase(Head(b)))
    ELSE PartsLess(Tail(a), Tail(b))

PathLess(a, b) == PartsLess(a, b)

\* fnmatch of a name against "*" + suffix, case-normalised as pathlib's
\* glob selectors do.
EndsWith(name, suffix) ==
    /\ Len(name) >= Len(suffix)
    /\ SubSeq(name, Len(name) - Len(suffix) + 1, Len(name)) = suffix

Matches(name, suffix) == EndsWith(NormCase(name), NormCase(suffix))

pattern_yaml == <<".","y","a","m","l">>

pattern_yml == <<".","y","m","l">>

patterns == <<pattern_yaml, pattern_yml>>

\* Comparison of two paths part by part and code point by code point.
RECURSIVE ByteLess(_, _)
ByteLess(a, b) ==
    IF a = <<>> THEN b # <<>>
    ELSE IF b = <<>> THEN FALSE
    ELSE IF Head(a) # Head(b) THEN StrLess(Head(a), Head(b))
    ELSE ByteLess(Tail(a), Tail(b))

\* The paths of a set in the order a directory walk yields them.  The order
\* is the file system's; here it is the descending ByteLess order.  The
\* paths of a walk are distinct and get_yaml_configs sorts them, so its
\* result does not depend on this order.
Listing(S) ==
    [i \in 1..Cardinality(S) |->
       CHOOSE x \in S : Cardinality({y \in S : ByteLess(x, y)}) = i - 1]

\* yaml_dir.rglob(pattern): every path below yaml_dir, at any depth, whose
\* last part matches the pattern.
rglob(fileSet, suffix) ==
    Listing({f \in fileSet : Matches(f[Len(f)], suffix)})

\* sorted(list): the stable sort by PathLess.  Element k goes to the position
\* that counts the elements less than it and the equal ones before it.
SortedPosition(list, k) ==
    1 + Cardinality({j \in DOMAIN list :
                       \/ PathLess(list[j], list[k])
                       \/ ~PathLess(list[k], list[j]) /\ j < k})

sorted(list) ==
    [i \in DOMAIN list |->
       list[CHOOSE k \in DOMAIN list : SortedPosition(list, k) = i]]

\* path.relative_to(base), base being a prefix of path.
relative_to(path, base) == SubSeq(path, Len(base) + 1, Len(path))

\* PurePath.stem: the last part without its final suffix.
LastDot(name) == IF \E i \in DOMAIN name : name[i] = "."
                 THEN CHOOSE i \in DOMAIN name :
                        name[i] = "." /\ \A j \in DOMAIN name : name[j] = "." => j <= i
                 ELSE 0

stem(path) == LET name == path[Len(path)]
                  i    == LastDot(name)
              IN  IF 1 < i /\ i < Len(name) THEN SubSeq(name, 1, i - 1) ELSE name

ConfigOf(yaml_file) ==
    [ path      |-> relative_to(yaml_file, ResourcesDir),
      name      |-> stem(yaml_file),
      full_path |-> yaml_file ]

\* The collection with the second pattern forgotten.
collect_yaml_filesFirstPatternOnly(fileSet) == rglob(fileSet, patterns[1])

\* get_yaml_configs, lines 49-51: the list the two rglob calls are collected in.
collect_yaml_files(fileSet) == rglob(fileSet, patterns[1]) \o rglob(fileSet, patterns[2])

\* get_yaml_configs, lines 54-64: the entries of the collected paths, sorted.
build_configs(collected) ==
    LET ordered == sorted(collected)
    IN  [i \in DOMAIN ordered |-> ConfigOf(ordered[i])]

\* The menu numbered by enumerate(configs) without its start of 1.
display_configsFromZero(cfgs) ==
    [i \in DOMAIN cfgs |-> [number |-> i - 1, name |-> cfgs[i].name]]

\* display_configs: line i of the menu is "<i>. <name>", i counted from 1.
display_configs(cfgs) == [i \in DOMAIN cfgs |-> [number |-> i, name |-> cfgs[i].name]]

\* ------------------------------------------------------------ bounds

\* File-system changes other processes make while the launcher runs.
MaxEnvSteps == 1

\* ------------------------------------------------------------ environment

Range(seq) == {seq[i] : i \in DOMAIN seq}

\* The files that may lie under resources/exps.
FileUniverse ==
    { yaml_dir \o <<n_b_yaml>>,
      yaml_dir \o <<n_a_yml>>,
      yaml_dir \o <<n_c_txt>>,
      yaml_dir \o <<n_C_yaml>>,
      yaml_dir \o <<n_sub, n_a_yaml>>,
      yaml_dir \o <<n_d_YML>> }

\* The directory of the spec's example: b.yaml, a.yml and c.txt.
SpecExample == {yaml_dir \o <<n_b_yaml>>, yaml_dir \o <<n_a_yml>>, yaml_dir \o <<n_c_txt>>}

\* Exit statuses of the child: 0, failures, and death by a signal.
ExitCodes == {0, 1, -9}

\* exitCode while the launcher is still running.
NoExit == 0 - 1

NoResult == [found |-> FALSE, returncode |-> NoExit]

NoConfig == [path |-> <<>>, name |-> <<>>, full_path |-> <<>>]

Msg(m) == [msg |-> m, arg |-> 0]

MsgArg(m, n) == [msg |-> m, arg |-> n]

\* list[i] with Python's indices: counted from 0, a negative one from the end.
ListGet(list, i) == IF i < 0 THEN list[Len(list) + i + 1] ELSE list[i + 1]

\* The range test with its lower bound off by one.
InRangeFromZero(choice_num, n) == 0 <= choice_num /\ choice_num <= n

\* The range test of get_user_choice, line 89.
InRange(choice_num, n) == 1 <= choice_num /\ choice_num <= n

\* The quit test of get_user_choice, line 84.
IsQuit(stripped) == Lower(stripped) = <<"q">>

Init ==
    /\ platform \in {"posix", "nt"}
    /\ \/ /\ exes \in SUBSET Range(possible_paths)
          /\ dirExists \in BOOLEAN
          /\ files = IF dirExists THEN SpecExample ELSE {}
          /\ cwd = ScriptsDir
       \/ /\ exes = {possible_paths[3]}
          /\ dirExists = TRUE
          /\ files \in SUBSET FileUniverse
          /\ cwd = ScriptsDir
       \/ /\ exes = {possible_paths[1], possible_paths[4]}
          /\ dirExists = TRUE
          /\ files = SpecExample
          /\ cwd = get_project_root
    /\ envSteps = 0
    /\ pc = "start"
    /\ executable_path = None
    /\ yaml_files = <<>>
    /\ configs = <<>>
    /\ menu = <<>>
    /\ choice = <<>>
    /\ selected_config = NoConfig
    /\ spawned = <<>>
    /\ result = NoResult
    /\ success = "None"
    /\ out = {}
    /\ exitCode = NoExit
    /\ terminal = ""
    /\ stages = <<>>

\* The positions of main at which a change of the file system is a case of
\* its own, each just before a read of it: exists() on the directory at line
\* 142, the rglob calls at line 50, and the spawn at line 114. A change
\* before the start is another initial state; one at any other position is
\* read at the same line as one made at the next of these three; one after
\* the spawn is never read.
EnvPositions == {"check_dir", "discover", "spawn"}

\* Another process deletes an executable, deletes resources/exps, or adds or
\* deletes a file under it, while the launcher runs.
EnvRemoveExe ==
    /\ envSteps < MaxEnvSteps
    /\ pc \in EnvPositions
    /\ \E p \in exes : exes' = exes \ {p}
    /\ envSteps' = envSteps + 1
    /\ UNCHANGED <<platform, dirExists, files>>
    /\ UNCHANGED progVars

EnvRemoveDir ==
    /\ envSteps < MaxEnvSteps
    /\ pc \in EnvPositions
    /\ dirExists
    /\ dirExists' = FALSE
    /\ files' = {}
    /\ envSteps' = envSteps + 1
    /\ UNCHANGED <<platform, exes>>
    /\ UNCHANGED progVars

EnvChangeFile ==
    /\ envSteps < MaxEnvSteps
    /\ pc \in EnvPositions
    /\ dirExists
    /\ \E f \in FileUniverse :
         files' = IF f \in files THEN files \ {f} ELSE files \cup {f}
    /\ envSteps' = envSteps + 1
    /\ UNCHANGED <<platform, exes, dirExists>>
    /\ UNCHANGED progVars

\* ------------------------------------------------------------ main

\* The executable check without its sys.exit(1): main goes on with None.
ResolveExecutableNoExit ==
    /\ pc = "start"
    /\ executable_path' = get_executable_path(exes)
    /\ stages' = Append(stages, "ResolveExecutable")
    /\ out' = IF executable_path' = None
              THEN out \cup {Msg("Qiwu Examples Runner"),
                             Msg("Error: Executable not found")}
              ELSE out \cup {Msg("Qiwu Examples Runner")}
    /\ pc' = "check_dir"
    /\ UNCHANGED <<platform, cwd, yaml_files, configs, menu, choice, selected_config,
                   spawned, result, success, exitCode, terminal>>
    /\ UNCHANGED fsVars

\* main, lines 129-142: the banner, get_executable_path and the check of
\* its result.
ResolveExecutable ==
    /\ pc = "start"
    /\ executable_path' = get_executable_path(exes)
    /\ stages' = Append(stages, "ResolveExecutable")
    /\ IF executable_path' = None
       THEN /\ out' = out \cup {Msg("Qiwu Examples Runner"),
                                Msg("Error: Executable not found")}
            /\ pc' = "NoExecutable"
       ELSE /\ out' = out \cup {Msg("Qiwu Examples Runner")}
            /\ pc' = "check_dir"
    /\ UNCHANGED <<platform, cwd, yaml_files, configs, menu, choice, selected_config,
                   spawned, result, success, exitCode, terminal>>
    /\ UNCHANGED fsVars

\* The directory check with its error message left out.
CheckConfigDirSilent ==
    /\ pc = "check_dir"
    /\ stages' = Append(stages, "CheckConfigDir")
    /\ pc' = IF ~dirExists THEN "NoConfigDir" ELSE "discover"
    /\ UNCHANGED <<platform, cwd, executable_path, yaml_files, configs, menu, choice,
                   selected_config, spawned, result, success, out, exitCode,
                   terminal>>
    /\ UNCHANGED fsVars

\* main, lines 145-149.
CheckConfigDir ==
    /\ pc = "check_dir"
    /\ stages' = Append(stages, "CheckConfigDir")
    /\ IF ~dirExists
       THEN /\ out' = out \cup {Msg("Error: YAML config directory not found")}
            /\ pc' = "NoConfigDir"
       ELSE /\ out' = out
            /\ pc' = "discover"
    /\ UNCHANGED <<platform, cwd, executable_path, yaml_files, configs, menu, choice,
                   selected_config, spawned, result, success, exitCode, terminal>>
    /\ UNCHANGED fsVars

\* main, line 152, and get_yaml_configs, lines 42-51: the directory test and
\* the two rglob calls.  Without the directory get_yaml_configs returns []
\* and main, lines 153-156, reports that no configuration was found.
DiscoverConfigsScan ==
    /\ pc = "discover"
    /\ stages' = Append(stages, "DiscoverConfigs")
    /\ IF ~dirExists
       THEN /\ configs' = <<>>
            /\ out' = out \cup {Msg("No YAML configuration files found")}
            /\ pc' = "NoConfigsFound"
            /\ UNCHANGED yaml_files
       ELSE /\ yaml_files' = collect_yaml_files(files)
            /\ pc' = "sort"
            /\ UNCHANGED <<configs, out>>
    /\ UNCHANGED <<platform, cwd, executable_path, menu, choice,
                   selected_config, spawned, result, success, exitCode,
                   terminal>>
    /\ UNCHANGED fsVars

\* get_yaml_configs, lines 54-64, and main, lines 153-156: the sorted entries
\* and the check that there is one.
DiscoverConfigsBuild ==
    /\ pc = "sort"
    /\ configs' = build_configs(yaml_files)
    /\ IF configs' = <<>>
       THEN /\ out' = out \cup {Msg("No YAML configuration files found")}
            /\ pc' = "NoConfigsFound"
       ELSE /\ out' = out
            /\ pc' = "display"
    /\ UNCHANGED <<platform, cwd, executable_path, yaml_files, menu, choice,
                   selected_config, spawned, result, success, exitCode,
                   terminal, stages>>
    /\ UNCHANGED fsVars

\* The three error exits of main: input("Press Enter to exit...") reads a
\* line, whatever it is, and then sys.exit(1) ends the process.
PressEnterExit1 ==
    /\ pc \in {"NoExecutable", "NoConfigDir", "NoConfigsFound"}
    /\ exitCode' = 1
    /\ terminal' = pc
    /\ pc' = "done"
    /\ UNCHANGED <<platform, cwd, executable_path, yaml_files, configs, menu, choice,
                   selected_config, spawned, result, success, out, stages>>
    /\ UNCHANGED fsVars

\* main, line 159.
DisplayConfigs ==
    /\ pc = "display"
    /\ menu' = display_configs(configs)
    /\ out' = out \cup {Msg("Available configuration files:")}
    /\ stages' = Append(stages, "PromptSelection")
    /\ pc' = "prompt"
    /\ UNCHANGED <<platform, cwd, executable_path, yaml_files, configs, choice,
                   selected_config, spawned, result, success, exitCode, terminal>>
    /\ UNCHANGED fsVars

\* The loop with the return of line 90 lost: a valid number selects the entry
\* and the loop goes on.
GetUserChoiceNoReturn(line) ==
    /\ pc = "prompt"
    /\ choice' = Strip(line)
    /\ IF IsQuit(choice')
       THEN /\ out' = out \cup {Msg("Program exit")}
            /\ exitCode' = 0
            /\ terminal' = "UserQuit"
            /\ pc' = "done"
            /\ UNCHANGED selected_config
       ELSE IF RaisesValueError(choice')
       THEN /\ out' = out \cup {Msg("Please enter a valid number or 'q' to quit")}
            /\ UNCHANGED <<exitCode, terminal, pc, selected_config>>
       ELSE IF InRange(IntOf(choice'), Len(configs))
       THEN /\ selected_config' = ListGet(configs, IntOf(choice') - 1)
            /\ UNCHANGED <<out, exitCode, terminal, pc>>
       ELSE /\ out' = out \cup {MsgArg("Please enter a number between 1 and", Len(configs))}
            /\ UNCHANGED <<exitCode, terminal, pc, selected_config>>
    /\ UNCHANGED <<platform, cwd, executable_path, yaml_files, configs, menu, spawned,
                   result, success, stages>>
    /\ UNCHANGED fsVars

\* One iteration of the loop of get_user_choice on the line read.
GetUserChoice(line) ==
    /\ pc = "prompt"
    /\ choice' = Strip(line)
    /\ IF IsQuit(choice')
       THEN /\ out' = out \cup {Msg("Program exit")}
            /\ exitCode' = 0
            /\ terminal' = "UserQuit"
            /\ pc' = "done"
            /\ UNCHANGED selected_config
       ELSE IF RaisesValueError(choice')
       THEN /\ out' = out \cup {Msg("Please enter a valid number or 'q' to quit")}
            /\ UNCHANGED <<exitCode, terminal, pc, selected_config>>
       ELSE IF InRange(IntOf(choice'), Len(configs))
       THEN /\ selected_config' = ListGet(configs, IntOf(choice') - 1)
            /\ pc' = "run"
            /\ UNCHANGED <<out, exitCode, terminal>>
       ELSE /\ out' = out \cup {MsgArg("Please enter a number between 1 and", Len(configs))}
            /\ UNCHANGED <<exitCode, terminal, pc, selected_config>>
    /\ UNCHANGED <<platform, cwd, executable_path, yaml_files, configs, menu, spawned,
                   result, success, stages>>
    /\ UNCHANGED fsVars

\* run_experiment, lines 99-112: the header, os.chdir and the command.
RunExperimentChdir ==
    /\ pc = "run"
    /\ out' = out \cup {Msg("Running:")}
    /\ cwd' = get_project_root
    /\ stages' = Append(stages, "RunExperiment")
    /\ pc' = "spawn"
    /\ UNCHANGED <<platform, executable_path, yaml_files, configs, menu, choice,
                   selected_config, spawned, result, success, exitCode, terminal>>
    /\ UNCHANGED fsVars

\* The command with the configuration's absolute path.
cmdFullPath == <<Str(executable_path), Str(selected_config.full_path)>>

cmd == <<Str(executable_path), Str(selected_config.path)>>

\* subprocess.run(cmd, check=True) in the current directory: FileNotFoundError
\* when the executable is no longer there, otherwise the child runs and exits.
SpawnResults ==
    IF executable_path \in exes
    THEN {[found |-> TRUE, returncode |-> c] : c \in ExitCodes}
    ELSE {[found |-> FALSE, returncode |-> NoExit]}

\* run_experiment without check=True: any child that ran counts as a success.
ReportOfUnchecked(res) ==
    IF ~res.found
    THEN [printed  |-> Msg("Error: Could not find executable"),
          returned |-> "False"]
    ELSE [printed  |-> Msg("Experiment completed successfully"),
          returned |-> "True"]

\* run_experiment, lines 114-124: what is printed and returned for a result.
\* check=True raises CalledProcessError on a nonzero exit status.
ReportOf(res) ==
    IF ~res.found
    THEN [printed  |-> Msg("Error: Could not find executable"),
          returned |-> "False"]
    ELSE IF res.returncode # 0
    THEN [printed  |-> MsgArg("Experiment failed with return code", res.returncode),
          returned |-> "False"]
    ELSE [printed  |-> Msg("Experiment completed successfully"),
          returned |-> "True"]

RunExperimentSpawn ==
    /\ pc = "spawn"
    /\ spawned' = Append(spawned, [argv |-> cmd, cwd |-> cwd])
    /\ \E res \in SpawnResults :
         /\ result' = res
         /\ out' = out \cup {ReportOf(res).printed}
         /\ success' = ReportOf(res).returned
    /\ pc' = "pause"
    /\ UNCHANGED <<platform, cwd, executable_path, yaml_files, configs, menu, choice,
                   selected_config, exitCode, terminal, stages>>
    /\ UNCHANGED fsVars

\* The terminal state of a completed flow.
OutcomeOf(res) ==
    IF ~res.found THEN "SpawnFailure"
    ELSE IF res.returncode = 0 THEN "Success"
    ELSE "NonzeroExit"

\* main ending with sys.exit(child's status) instead of falling off its end.
FinalPausePropagating ==
    /\ pc = "pause"
    /\ exitCode' = IF result.found THEN (IF result.returncode = 0 THEN 0 ELSE 1) ELSE 1
    /\ terminal' = OutcomeOf(result)
    /\ pc' = "done"
    /\ UNCHANGED <<platform, cwd, executable_path, yaml_files, configs, menu, choice,
                   selected_config, spawned, result, success, out, stages>>
    /\ UNCHANGED fsVars

\* main, line 166: the final pause, then main returns and the interpreter
\* exits with status 0.
FinalPause ==
    /\ pc = "pause"
    /\ exitCode' = 0
    /\ terminal' = OutcomeOf(result)
    /\ pc' = "done"
    /\ UNCHANGED <<platform, cwd, executable_path, yaml_files, configs, menu, choice,
                   selected_config, spawned, result, success, out, stages>>
    /\ UNCHANGED fsVars

Next ==
    \/ EnvRemoveExe
    \/ EnvRemoveDir
    \/ EnvChangeFile
    \/ ResolveExecutable
    \/ CheckConfigDir
    \/ DiscoverConfigsScan
    \/ DiscoverConfigsBuild
    \/ PressEnterExit1
    \/ DisplayConfigs
    \/ \E line \in InputLines : GetUserChoice(line)
    \/ RunExperimentChdir
    \/ RunExperimentSpawn
    \/ FinalPause

Spec == Init /\ [][Next]_vars

\* ------------------------------------------------------------ fairness

\* The runs of a POSIX launcher started in scripts/ with the executable built,
\* on the spec's example directory or on one without a configuration.
LiveInit ==
    /\ Init
    /\ platform = "posix"
    /\ cwd = ScriptsDir
    /\ exes = {possible_paths[3]}
    /\ files \in {SpecExample, {yaml_dir \o <<n_c_txt>>}}

\* The steps the interpreter takes by itself once its input has arrived;
\* the child is taken to exit and the Enter of the pauses to be typed.
ProgramStep ==
    \/ ResolveExecutable
    \/ CheckConfigDir
    \/ DiscoverConfigsScan
    \/ DiscoverConfigsBuild
    \/ PressEnterExit1
    \/ DisplayConfigs
    \/ RunExperimentChdir
    \/ RunExperimentSpawn
    \/ FinalPause

\* The user types q or a number of the menu.
ValidOrQuit(line) ==
    \/ IsQuit(Strip(line))
    \/ /\ ~RaisesValueError(Strip(line))
       /\ IntOf(Strip(line)) \in 1..Len(configs)

UserEntersValidOrQuit ==
    \E line \in InputLines : ValidOrQuit(line) /\ GetUserChoice(line)

UserEntersLine == \E line \in InputLines : GetUserChoice(line)

\* The user eventually types q or a number of the menu.
FairSpec ==
    /\ LiveInit
    /\ [][Next]_vars
    /\ WF_vars(ProgramStep)
    /\ WF_vars(UserEntersValidOrQuit)

\* The user keeps typing lines, whatever they are.
AnyInputSpec ==
    /\ LiveInit
    /\ [][Next]_vars
    /\ WF_vars(ProgramStep)
    /\ WF_vars(UserEntersLine)

\* ------------------------------------------------------------ claims

Min(S) == CHOOSE x \in S : \A y \in S : x <= y

\* The priority order the claim C1 states, relative to the project root.
C1PriorityOrder ==
    << <<n_build, n_bin, n_Release, n_exe_win>>,
       <<n_build, n_bin, n_RelWithDebInfo, n_exe_win>>,
       <<n_build, n_bin, n_exe>>,
       <<n_build, n_exe>> >>

C1Existing == {i \in DOMAIN C1PriorityOrder :
                 (get_project_root \o C1PriorityOrder[i]) \in exes}

\* C1: whatever subset of the four candidate paths exists when main calls
\* get_executable_path, the call returns the existing candidate that comes
\* first in the priority order Release, RelWithDebInfo, build/bin,
\* build, and returns None exactly when none of the four exists.
C1_FirstExistingCandidate ==
    [][(pc = "start" /\ pc' # "start") =>
         /\ (executable_path' = None) <=> (C1Existing = {})
         /\ C1Existing # {} =>
              executable_path' = get_project_root \o C1PriorityOrder[Min(C1Existing)]]_vars

C1_Witness ==
    /\ pc = "check_dir"
    /\ envSteps = 0
    /\ possible_paths[1] \notin exes
    /\ possible_paths[2] \in exes
    /\ possible_paths[4] \in exes
    /\ executable_path = possible_paths[2]

\* C2: when the launcher has ended its exit code is 1 exactly in the
\* terminal states NoExecutable, NoConfigDir and NoConfigsFound and 0 in
\* every other one (UserQuit, Success, NonzeroExit, SpawnFailure); the
\* child's exit status is not the launcher's.
C2_ExitCodes ==
    /\ pc # "done" => exitCode = NoExit
    /\ pc = "done" =>
         /\ terminal \in {"NoExecutable", "NoConfigDir", "NoConfigsFound"}
              => exitCode = 1
         /\ terminal \in {"UserQuit", "Success", "NonzeroExit", "SpawnFailure"}
              => exitCode = 0
         /\ terminal \in {"NoExecutable", "NoConfigDir", "NoConfigsFound",
                          "UserQuit", "Success", "NonzeroExit", "SpawnFailure"}
         /\ (result.found /\ result.returncode # 0) => exitCode # result.returncode

C2_Witness ==
    /\ pc = "done"
    /\ terminal = "NonzeroExit"
    /\ result.returncode = 1
    /\ exitCode = 0

\* The lines the claim C3 calls rejected, for a menu of Len(configs) entries.
C3Rejected(line) ==
    /\ ~IsQuit(Strip(line))
    /\ \/ RaisesValueError(Strip(line))
       \/ IntOf(Strip(line)) \notin 1..Len(configs)

\* C3: a line that is not the quit sentinel and is no integer, or an integer
\* outside 1..N, leaves the launcher in the prompt with nothing selected,
\* nothing spawned and the process running, ready to read the next line; the
\* line q ends the program at once with exit code 0 and nothing spawned.
C3_InvalidInputReprompts ==
    [][\A line \in InputLines :
         GetUserChoice(line) =>
           /\ C3Rejected(line) =>
                /\ pc' = "prompt"
                /\ selected_config' = NoConfig
                /\ spawned' = <<>>
                /\ exitCode' = NoExit
                /\ terminal' = ""
           /\ line = <<"q">> =>
                /\ pc' = "done"
                /\ terminal' = "UserQuit"
                /\ exitCode' = 0
                /\ spawned' = <<>>]_vars

C3_Witness ==
    /\ pc = "prompt"
    /\ Len(configs) = 3
    /\ choice \in {<<"0">>, <<"-", "1">>, <<"7">>}
    /\ MsgArg("Please enter a number between 1 and", 3) \in out
    /\ selected_config = NoConfig
    /\ spawned = <<>>
    /\ exitCode = NoExit

\* C4: run_experiment returns True exactly when the child ran and exited with
\* status 0; a nonzero status is reported as a failure with that status, and
\* an executable missing at spawn time by a message of its own, neither of
\* the other two.
C4_ReportsOutcome ==
    success # "None" =>
      /\ success = "True" <=> (result.found /\ result.returncode = 0)
      /\ (result.found /\ result.returncode = 0) =>
           /\ Msg("Experiment completed successfully") \in out
           /\ Msg("Error: Could not find executable") \notin out
           /\ \A c \in ExitCodes : MsgArg("Experiment failed with return code", c) \notin out
      /\ (result.found /\ result.returncode # 0) =>
           /\ MsgArg("Experiment failed with return code", result.returncode) \in out
           /\ Msg("Error: Could not find executable") \notin out
           /\ Msg("Experiment completed successfully") \notin out
      /\ ~result.found =>
           /\ Msg("Error: Could not find executable") \in out
           /\ Msg("Experiment completed successfully") \notin out
           /\ \A c \in ExitCodes : MsgArg("Experiment failed with return code", c) \notin out

C4_Witness ==
    /\ pc = "pause"
    /\ ~result.found
    /\ executable_path # None
    /\ executable_path \notin exes
    /\ success = "False"
    /\ Msg("Error: Could not find executable") \in out

\* The extension of a file name: its last dot and what follows it.
C5Extension(name) ==
    IF LastDot(name) > 0 THEN SubSeq(name, LastDot(name), Len(name)) ELSE <<>>

\* Case-sensitive lexicographic order on paths, part by part.
RECURSIVE C5CaseSensitiveLess(_, _)
C5CaseSensitiveLess(a, b) ==
    IF a = <<>> THEN b # <<>>
    ELSE IF b = <<>> THEN FALSE
    ELSE IF Head(a) # Head(b) THEN StrLess(Head(a), Head(b))
    ELSE C5CaseSensitiveLess(Tail(a), Tail(b))

C5LowerParts(path) == [i \in DOMAIN path |-> Lower(path[i])]

\* The configuration entry of a file: its path relative to resources, its
\* stem and its absolute path.
C5EntryOf(f) ==
    [ path      |-> SubSeq(f, Len(get_project_root) + 2, Len(f)),
      name      |-> stem(f),
      full_path |-> f ]

\* cfgs lists the files of wanted, one entry each, increasing in less.
C5Lists(cfgs, wanted, less(_, _)) ==
    /\ {cfgs[i] : i \in DOMAIN cfgs} = {C5EntryOf(f) : f \in wanted}
    /\ Len(cfgs) = Cardinality(wanted)
    /\ \A i, j \in DOMAIN cfgs : i < j => less(cfgs[i].full_path, cfgs[j].full_path)

C5WantedExact ==
    IF dirExists
    THEN {f \in files : C5Extension(f[Len(f)]) \in {pattern_yaml, pattern_yml}}
    ELSE {}

\* get_yaml_configs returns when control comes back to main with configs set:
\* from the directory test when the directory is absent, else from the sort.
C5Returns ==
    \/ pc = "discover" /\ pc' = "NoConfigsFound"
    \/ pc = "sort" /\ pc' # "sort"

\* C5 as stated: the entries are the files whose extension is .yaml or .yml,
\* each once, sorted case-sensitively by path; none when the directory is
\* absent, empty or without such a file.
C5_Original ==
    [][C5Returns =>
         C5Lists(configs', C5WantedExact, C5CaseSensitiveLess)]_vars

C5WantedOnPlatform ==
    IF dirExists
    THEN {f \in files :
            IF platform = "nt"
            THEN Lower(C5Extension(f[Len(f)])) \in {pattern_yaml, pattern_yml}
            ELSE C5Extension(f[Len(f)]) \in {pattern_yaml, pattern_yml}}
    ELSE {}

C5LessOnPlatform(a, b) ==
    IF platform = "nt"
    THEN C5CaseSensitiveLess(C5LowerParts(a), C5LowerParts(b))
    ELSE C5CaseSensitiveLess(a, b)

\* C5 amended: the entries are the files whose extension is .yaml or .yml,
\* each once, sorted by path part by part; the extension match and the sort
\* are case-sensitive on POSIX and case-insensitive on Windows; no entry when
\* the directory is absent, empty or without such a file.
C5_DiscoversSortedConfigs ==
    [][C5Returns =>
         C5Lists(configs', C5WantedOnPlatform, C5LessOnPlatform)]_vars

C5_Witness ==
    /\ platform = "nt"
    /\ pc = "display"
    /\ envSteps = 0
    /\ files = FileUniverse
    /\ Len(yaml_files) = 5
    /\ Len(configs) = 5
    /\ configs[1].full_path = yaml_dir \o <<n_a_yml>>
    /\ configs[2].full_path = yaml_dir \o <<n_b_yaml>>
    /\ configs[3].full_path = yaml_dir \o <<n_C_yaml>>
    /\ configs[4].full_path = yaml_dir \o <<n_d_YML>>
    /\ configs[5].full_path = yaml_dir \o <<n_sub, n_a_yaml>>

\* C6: every spawn has the argument vector [executable path, path of the
\* selected configuration relative to resources] and the project root as
\* working directory; the working directory changes only in run_experiment,
\* to the project root, and stays there.
C6State ==
    /\ \A k \in DOMAIN spawned :
         /\ Len(spawned[k].argv) = 2
         /\ spawned[k].argv[1] = Str(executable_path)
         /\ executable_path \in Range(possible_paths)
         /\ selected_config.full_path \in FileUniverse
         /\ spawned[k].argv[2] =
              Str(SubSeq(selected_config.full_path, Len(ResourcesDir) + 1,
                         Len(selected_config.full_path)))
         /\ spawned[k].cwd = get_project_root
    /\ "RunExperiment" \in Range(stages) => cwd = get_project_root

C6_SpawnArguments ==
    /\ []C6State
    /\ [][cwd' # cwd => (pc = "run" /\ cwd' = get_project_root)]_vars

C6_Witness ==
    /\ pc = "done"
    /\ Len(spawned) = 1
    /\ cwd = get_project_root
    /\ spawned[1].cwd = get_project_root
    /\ platform = "posix"
    /\ spawned[1].argv[2] = <<"e","x","p","s","/","s","u","b","/","a",".","y","a","m","l">>

\* C7: the menu shows entry k of configs under number k for every k, a
\* selected configuration is the entry under the number typed, distinct
\* numbers show distinct entries, and configs and the menu do not change
\* between discovery, display, selection and spawn, so the configuration
\* passed to the child is the one displayed under the number typed.
C7State ==
    /\ menu # <<>> =>
         /\ DOMAIN menu = DOMAIN configs
         /\ \A k \in DOMAIN menu :
              menu[k].number = k /\ menu[k].name = configs[k].name
    /\ \A i, j \in DOMAIN configs : i # j => configs[i] # configs[j]
    /\ selected_config # NoConfig =>
         /\ ~RaisesValueError(choice)
         /\ \E k \in DOMAIN menu :
              /\ menu[k].number = IntOf(choice)
              /\ selected_config = configs[k]
              /\ menu[k].name = selected_config.name
    /\ \A s \in DOMAIN spawned :
         \E k \in DOMAIN menu :
           /\ menu[k].number = IntOf(choice)
           /\ spawned[s].argv[2] = Str(configs[k].path)

C7_MenuBijection ==
    /\ []C7State
    /\ [][/\ pc \notin {"start", "check_dir", "discover", "sort"} => configs' = configs
          /\ "PromptSelection" \in Range(stages) => menu' = menu]_vars

C7_Witness ==
    /\ pc = "pause"
    /\ envSteps = 1
    /\ Len(configs) >= 3
    /\ choice = <<"2">>
    /\ selected_config = configs[2]
    /\ selected_config.full_path \notin files
    /\ Len(spawned) = 1

\* The message printed for a terminal state.
C8MessageOf(t) ==
    CASE t = "NoExecutable"   -> Msg("Error: Executable not found")
      [] t = "NoConfigDir"    -> Msg("Error: YAML config directory not found")
      [] t = "NoConfigsFound" -> Msg("No YAML configuration files found")
      [] t = "UserQuit"       -> Msg("Program exit")
      [] t = "Success"        -> Msg("Experiment completed successfully")
      [] t = "SpawnFailure"   -> Msg("Error: Could not find executable")
      [] t = "NonzeroExit"    -> MsgArg("Experiment failed with return code",
                                        result.returncode)

\* C8: a run that has ended has ended in one of the seven terminal states
\* and the message of that state has been printed.
C8_TerminalMessage ==
    pc = "done" =>
      /\ terminal \in {"NoExecutable", "NoConfigDir", "NoConfigsFound",
                       "UserQuit", "Success", "SpawnFailure", "NonzeroExit"}
      /\ C8MessageOf(terminal) \in out

C8_Witness ==
    /\ pc = "done"
    /\ terminal = "NoConfigDir"
    /\ Msg("Error: YAML config directory not found") \in out

C9Order == <<"ResolveExecutable", "CheckConfigDir", "DiscoverConfigs",
             "PromptSelection", "RunExperiment">>

\* C9: the stages are entered in the order ResolveExecutable, directory
\* check, DiscoverConfigs, PromptSelection, RunExperiment, each only after
\* the one before succeeded: the prompt needs an executable and a non-empty
\* list, a missing executable ends the run before any scan, a spawn needs a
\* valid selection, and there is at most one spawn in a run.
C9_LinearFlow ==
    /\ Len(stages) <= Len(C9Order)
    /\ stages = SubSeq(C9Order, 1, Len(stages))
    /\ "CheckConfigDir" \in Range(stages) => executable_path # None
    /\ "PromptSelection" \in Range(stages) =>
         executable_path # None /\ configs # <<>>
    /\ (pc = "NoExecutable" \/ terminal = "NoExecutable") =>
         stages = <<"ResolveExecutable">> /\ configs = <<>>
    /\ (pc = "NoConfigDir" \/ terminal = "NoConfigDir") =>
         stages = SubSeq(C9Order, 1, 2) /\ configs = <<>>
    /\ (pc = "NoConfigsFound" \/ terminal = "NoConfigsFound") =>
         stages = SubSeq(C9Order, 1, 3) /\ configs = <<>>
    /\ "RunExperiment" \in Range(stages) =>
         /\ selected_config \in Range(configs)
         /\ ~RaisesValueError(choice)
         /\ IntOf(choice) \in 1..Len(configs)
    /\ spawned # <<>> => "RunExperiment" \in Range(stages)
    /\ Len(spawned) <= 1
    /\ (pc = "done" /\ success = "False") => Len(spawned) = 1

C9_Witness ==
    /\ pc = "done"
    /\ stages = C9Order
    /\ Len(spawned) = 1
    /\ success = "False"
    /\ terminal = "SpawnFailure"

C10InvalidRead ==
    \E line \in InputLines : ~ValidOrQuit(line) /\ GetUserChoice(line)

C10_EndsOnAnyInput == <>(pc = "done")

====
